---- MODULE Spec2Model ----
(***************************************************************************)
(* Model of pdf2latex.py: the command-line pipeline that renders the pages *)
(* of a PDF, sends each selected page to the vision model, and assembles   *)
(* the returned LaTeX fragments into batch files and a final document.     *)
(*                                                                         *)
(* Text (fragments, documents, file names) is a sequence of string tokens; *)
(* a page image is identified by the index of the page it was rendered     *)
(* from.  An optional command-line value is <<>> (None) or <<v>>.          *)
(***************************************************************************)
EXTENDS Integers, Sequences, FiniteSets, TLC

VARIABLES
    api_key,          \* ANTHROPIC_API_KEY is set in the environment
    argv,             \* what argparse makes of the command line: ok, error, help
    pdf_exists,       \* os.path.exists(args.pdf_path)
    doc_pages,        \* len(doc): number of pages of the PDF
    render_fault,     \* fitz/PIL raises while the document is opened or rendered
    args,             \* parsed --start-page, --end-page, --batch-size
    pc,               \* position in main()
    exit_code,        \* <<>> while running, <<c>> once the process has exited
    rendered,         \* number of pages rasterized so far
    images,           \* result of extract_pages_as_images
    start_page, end_page, selected_images, batch_size, num_batches,
    batch_idx, batch_images, latex_pages, i, all_latex_pages, full_latex,
    log               \* remote-model invocations and file writes, in order

vars == <<api_key, argv, pdf_exists, doc_pages, render_fault, args, pc,
          exit_code, rendered, images, start_page, end_page, selected_images,
          batch_size, num_batches, batch_idx, batch_images, latex_pages, i,
          all_latex_pages, full_latex, log>>

inputs == <<api_key, argv, pdf_exists, doc_pages, render_fault, args>>

locals == <<start_page, end_page, selected_images, batch_size, num_batches,
            batch_idx, batch_images, latex_pages, i, all_latex_pages,
            full_latex>>

----------------------------------------------------------------------------
(* Bounds *)

MaxPages == 3
MaxBatch == 3
MaxNegBatch == 2
MaxFragments == 3

----------------------------------------------------------------------------
(* Python primitives *)

Min(a, b) == IF a <= b THEN a ELSE b

\* a // b with Python's rounding towards minus infinity, b # 0
FloorDiv(a, b) == IF b > 0 THEN a \div b ELSE (0 - a) \div (0 - b)

\* one bound of seq[a:b]: negative counts from the end, then clamp to [0, n]
ClampIndex(k, n) ==
    LET j == IF k < 0 THEN k + n ELSE k
    IN  IF j < 0 THEN 0 ELSE IF j > n THEN n ELSE j

\* seq[a:b]
PySlice(seq, a, b) ==
    LET lo == ClampIndex(a, Len(seq))
        hi == ClampIndex(b, Len(seq))
    IN  IF lo >= hi THEN <<>> ELSE SubSeq(seq, lo + 1, hi)

Digits == <<"0", "1", "2", "3", "4", "5", "6", "7", "8", "9">>

\* str(n) for n >= 0, one token per decimal digit
RECURSIVE DecStr(_)
DecStr(n) ==
    IF n < 10 THEN <<Digits[n + 1]>>
    ELSE DecStr(n \div 10) \o <<Digits[(n % 10) + 1]>>

\* sep.join(parts)
RECURSIVE Join(_, _)
Join(sep, parts) ==
    IF parts = <<>> THEN <<>>
    ELSE IF Len(parts) = 1 THEN parts[1]
    ELSE parts[1] \o sep \o Join(sep, Tail(parts))

----------------------------------------------------------------------------
(* check_environment *)

check_environment_always == TRUE

check_environment == api_key

----------------------------------------------------------------------------
(* extract_pages_as_images: the images of all pages, or [] on any fault.   *)
(* done is the number of pages rasterized before a fault struck.           *)

extract_short(n, fault, done) ==
    IF fault THEN [images |-> <<>>, rendered |-> done]
    ELSE [images |-> [k \in 1..(n - 1) |-> k - 1], rendered |-> n - 1]

extract_pages_as_images(n, fault, done) ==
    IF fault THEN [images |-> <<>>, rendered |-> done]
    ELSE [images |-> [k \in 1..n |-> k - 1], rendered |-> n]

----------------------------------------------------------------------------
(* get_image_base64_and_mime and the vision call *)

Outcomes == {"ok", "api_error", "encode_error"}

get_image_base64_and_mime(image, outcome) ==
    [raised |-> outcome = "encode_error",
     value  |-> <<"image/png">> \o DecStr(image)]

\* response.content[0].text for the page image sent
ResponseText(image) == <<"\\section{page ">> \o DecStr(image) \o <<"}">>

ExceptionText(outcome) ==
    IF outcome = "encode_error" THEN "cannot write PNG" ELSE "API error"

ErrorMarker == "% Error processing page "

ErrorFragment(page_num, outcome) ==
    <<ErrorMarker>> \o DecStr(page_num + 1)
        \o <<"\n% ", ExceptionText(outcome), "\n\n">>

ErrorFragmentZeroBased(page_num, outcome) ==
    <<ErrorMarker>> \o DecStr(page_num)
        \o <<"\n% ", ExceptionText(outcome), "\n\n">>

\* the encoding step placed before the try block
translate_encode_outside_try(image, page_num, outcome) ==
    LET enc == get_image_base64_and_mime(image, outcome)
    IN  IF enc.raised THEN [raised |-> TRUE, value |-> <<>>]
        ELSE IF outcome = "api_error"
             THEN [raised |-> FALSE, value |-> ErrorFragment(page_num, outcome)]
             ELSE [raised |-> FALSE, value |-> ResponseText(image)]

\* the page number of the error comment printed 0-based
translate_zero_based(image, page_num, outcome) ==
    LET enc == get_image_base64_and_mime(image, outcome)
    IN  IF enc.raised \/ outcome = "api_error"
        THEN [raised |-> FALSE,
              value |-> ErrorFragmentZeroBased(page_num, outcome)]
        ELSE [raised |-> FALSE, value |-> ResponseText(image)]

\* Everything, the encoding included, runs inside try/except Exception.
translate_and_convert_to_latex_with_claude_vision(image, page_num, outcome) ==
    LET enc == get_image_base64_and_mime(image, outcome)
    IN  IF enc.raised \/ outcome = "api_error"
        THEN [raised |-> FALSE, value |-> ErrorFragment(page_num, outcome)]
        ELSE [raised |-> FALSE, value |-> ResponseText(image)]

----------------------------------------------------------------------------
(* combine_latex_pages *)

Preamble ==
    <<"\n", "\\documentclass{amsart}", "\n", "\\usepackage...", "\n\n\n",
      "\\begin{document}", "\n\n", "\\maketitle", "\n">>

Separator == <<"\n\n", "% ===== NEW PAGE =====", "\n\n">>

Postamble == <<"\n\n", "\\end{document}">>

\* the fragments run together, no page separator between them
combine_no_separator(pages) ==
    Preamble \o Join(<<>>, pages) \o Postamble

combine_latex_pages(pages) ==
    Preamble \o Join(Separator, pages) \o Postamble

----------------------------------------------------------------------------
(* main: range checks and file names *)

StartPageOutOfRange(s, n) == s < 0 \/ s >= n

EndPageNoUpperCheck(e, s, n) == e < s

EndPageOutOfRange(e, s, n) == e < s \/ e >= n

SaveEveryBatch(n) == n >= 1

SaveIntermediate(n) == n > 1

OutputRoot == <<"paper_translated_en">>

OutputPath == OutputRoot \o <<".tex">>

BatchOutput(idx) == OutputRoot \o <<"_batch">> \o DecStr(idx + 1) \o <<".tex">>

\* lines 197-199 for an arbitrary batch index
batch_start_of(idx) == idx * batch_size

batch_end_of(idx) == Min((idx + 1) * batch_size, Len(selected_images))

batch_images_of(idx) ==
    PySlice(selected_images, batch_start_of(idx), batch_end_of(idx))

batch_start == batch_start_of(batch_idx)

batch_end == batch_end_of(batch_idx)

TranslateEvent(page_num, image, outcome, text) ==
    [kind |-> "translate", page |-> page_num, image |-> image,
     outcome |-> outcome, name |-> <<>>, text |-> text]

WriteEvent(name, text) ==
    [kind |-> "write", page |-> 0, image |-> 0, outcome |-> "",
     name |-> name, text |-> text]

Exit(code) ==
    /\ pc' = "exited"
    /\ exit_code' = <<code>>

----------------------------------------------------------------------------
(* Initial states *)

Optional(S) == {<<>>} \cup {<<v>> : v \in S}

InitLocals ==
    /\ exit_code = <<>>
    /\ rendered = 0
    /\ images = <<>>
    /\ start_page = 0
    /\ end_page = 0
    /\ selected_images = <<>>
    /\ batch_size = 0
    /\ num_batches = 0
    /\ batch_idx = 0
    /\ batch_images = <<>>
    /\ latex_pages = <<>>
    /\ i = 0
    /\ all_latex_pages = <<>>
    /\ full_latex = <<>>
    /\ log = <<>>

Init ==
    /\ api_key \in BOOLEAN
    /\ argv \in {"ok", "error", "help"}
    /\ pdf_exists \in BOOLEAN
    /\ doc_pages \in 0..MaxPages
    /\ render_fault \in BOOLEAN
    /\ args \in [start_page : -1..MaxPages,
                 end_page   : Optional(-1..MaxPages),
                 batch_size : Optional((0 - MaxNegBatch)..MaxBatch)]
    /\ pc = "check_environment"
    /\ InitLocals

----------------------------------------------------------------------------
(* main, step by step *)

\* lines 148-150
CheckEnvironment ==
    /\ pc = "check_environment"
    /\ IF check_environment
       THEN pc' = "parse_args" /\ UNCHANGED exit_code
       ELSE Exit(1)
    /\ UNCHANGED <<inputs, rendered, images, locals, log>>

\* lines 152-160: argparse exits 2 on a usage error and 0 after --help
ParseArgs ==
    /\ pc = "parse_args"
    /\ IF argv = "ok" THEN pc' = "check_path" /\ UNCHANGED exit_code
       ELSE IF argv = "help" THEN Exit(0)
       ELSE Exit(2)
    /\ UNCHANGED <<inputs, rendered, images, locals, log>>

\* lines 162-169
CheckPath ==
    /\ pc = "check_path"
    /\ IF pdf_exists THEN pc' = "extract" /\ UNCHANGED exit_code
       ELSE Exit(1)
    /\ UNCHANGED <<inputs, rendered, images, locals, log>>

\* lines 171-174
ExtractPages ==
    /\ pc = "extract"
    /\ \E done \in 0..doc_pages :
          /\ render_fault => done < doc_pages \/ doc_pages = 0
          /\ LET r == extract_pages_as_images(doc_pages, render_fault, done)
             IN  /\ images' = r.images
                 /\ rendered' = r.rendered
                 /\ IF r.images = <<>> THEN Exit(1)
                    ELSE pc' = "validate" /\ UNCHANGED exit_code
    /\ UNCHANGED <<inputs, locals, log>>

\* lines 176-194
ValidateRange ==
    /\ pc = "validate"
    /\ LET s == args.start_page
           e == IF args.end_page # <<>> THEN args.end_page[1]
                ELSE Len(images) - 1
           sel == PySlice(images, s, e + 1)
           bs == IF args.batch_size # <<>> /\ args.batch_size[1] # 0
                 THEN args.batch_size[1] ELSE Len(sel)
       IN  /\ start_page' = s
           /\ end_page' = e
           /\ IF StartPageOutOfRange(s, Len(images))
                 \/ EndPageOutOfRange(e, s, Len(images))
              THEN /\ Exit(1)
                   /\ UNCHANGED <<selected_images, batch_size, num_batches>>
              ELSE /\ selected_images' = sel
                   /\ batch_size' = bs
                   /\ num_batches' = FloorDiv(Len(sel) + bs - 1, bs)
                   /\ pc' = "batch_loop"
                   /\ UNCHANGED exit_code
    /\ UNCHANGED <<inputs, rendered, images, batch_idx, batch_images,
                   latex_pages, i, all_latex_pages, full_latex, log>>

\* lines 196-204
BatchLoop ==
    /\ pc = "batch_loop"
    /\ batch_idx < num_batches
    /\ batch_images' = batch_images_of(batch_idx)
    /\ latex_pages' = <<>>
    /\ i' = 0
    /\ pc' = "page_loop"
    /\ UNCHANGED <<inputs, exit_code, rendered, images, start_page, end_page,
                   selected_images, batch_size, num_batches, batch_idx,
                   all_latex_pages, full_latex, log>>

\* lines 205-213
ProcessPage ==
    /\ pc = "page_loop"
    /\ i < Len(batch_images)
    /\ \E outcome \in Outcomes :
          LET image == batch_images[i + 1]
              actual_page == start_page + batch_start + i
              r == translate_and_convert_to_latex_with_claude_vision(
                       image, actual_page, outcome)
          IN  /\ log' = Append(log,
                     TranslateEvent(actual_page, image, outcome, r.value))
              /\ IF r.raised
                 THEN Exit(1) /\ UNCHANGED <<latex_pages, i>>
                 ELSE /\ latex_pages' = Append(latex_pages, r.value)
                      /\ i' = i + 1
                      /\ UNCHANGED <<pc, exit_code>>
    /\ UNCHANGED <<inputs, rendered, images, start_page, end_page,
                   selected_images, batch_size, num_batches, batch_idx,
                   batch_images, all_latex_pages, full_latex>>

\* lines 215-223
BatchSave ==
    /\ pc = "page_loop"
    /\ i >= Len(batch_images)
    /\ all_latex_pages' = all_latex_pages \o latex_pages
    /\ log' = IF SaveIntermediate(num_batches)
              THEN Append(log, WriteEvent(BatchOutput(batch_idx),
                                          combine_latex_pages(latex_pages)))
              ELSE log
    /\ batch_idx' = batch_idx + 1
    /\ pc' = "batch_loop"
    /\ UNCHANGED <<inputs, exit_code, rendered, images, start_page, end_page,
                   selected_images, batch_size, num_batches, batch_images,
                   latex_pages, i, full_latex>>

\* lines 225-232
FinalSave ==
    /\ pc = "batch_loop"
    /\ batch_idx >= num_batches
    /\ full_latex' = combine_latex_pages(all_latex_pages)
    /\ log' = Append(log, WriteEvent(OutputPath, full_latex'))
    /\ Exit(0)
    /\ UNCHANGED <<inputs, rendered, images, start_page, end_page,
                   selected_images, batch_size, num_batches, batch_idx,
                   batch_images, latex_pages, i, all_latex_pages>>

Next ==
    \/ CheckEnvironment
    \/ ParseArgs
    \/ CheckPath
    \/ ExtractPages
    \/ ValidateRange
    \/ BatchLoop
    \/ ProcessPage
    \/ BatchSave
    \/ FinalSave

Spec == Init /\ [][Next]_vars

\* main runs to its end: a sequential program whose calls all return
FairSpec == Spec /\ WF_vars(Next)

----------------------------------------------------------------------------
(* Repeated assembly: combine_latex_pages applied to a growing list of     *)
(* fragments, as main does when it reassembles after every batch.          *)

Fragments ==
    {<<>>, ResponseText(0), ErrorFragment(0, "api_error"), Separator,
     Postamble}

InitAssemble ==
    /\ api_key = TRUE
    /\ argv = "ok"
    /\ pdf_exists = TRUE
    /\ doc_pages = 0
    /\ render_fault = FALSE
    /\ args = [start_page |-> 0, end_page |-> <<>>, batch_size |-> <<>>]
    /\ pc = "assemble"
    /\ exit_code = <<>>
    /\ rendered = 0
    /\ images = <<>>
    /\ start_page = 0
    /\ end_page = 0
    /\ selected_images = <<>>
    /\ batch_size = 0
    /\ num_batches = 0
    /\ batch_idx = 0
    /\ batch_images = <<>>
    /\ latex_pages = <<>>
    /\ i = 0
    /\ all_latex_pages = <<>>
    /\ full_latex = combine_latex_pages(<<>>)
    /\ log = <<>>

AssembleNext ==
    /\ pc = "assemble"
    /\ Len(all_latex_pages) < MaxFragments
    /\ \E c \in Fragments :
          /\ all_latex_pages' = Append(all_latex_pages, c)
          /\ full_latex' = combine_latex_pages(all_latex_pages')
    /\ UNCHANGED <<inputs, pc, exit_code, rendered, images, start_page,
                   end_page, selected_images, batch_size, num_batches,
                   batch_idx, batch_images, latex_pages, i, log>>

NextAssemble == AssembleNext

SpecAssemble == InitAssemble /\ [][NextAssemble]_vars

----------------------------------------------------------------------------
(* Vocabulary of the properties *)

TranslateIdx == {k \in 1..Len(log) : log[k].kind = "translate"}

WriteIdx == {k \in 1..Len(log) : log[k].kind = "write"}

FinalWriteIdx == {k \in WriteIdx : log[k].name = OutputPath}

IntermediateWriteIdx == WriteIdx \ FinalWriteIdx

NoCalls == TranslateIdx = {}

FinalWritten == FinalWriteIdx # {}

\* the range the command line asks for, against the true page count
RequestedEnd ==
    IF args.end_page = <<>> THEN doc_pages - 1 ELSE args.end_page[1]

RangeInvalid ==
    \/ args.start_page > RequestedEnd
    \/ args.start_page \notin 0..(doc_pages - 1)
    \/ RequestedEnd \notin 0..(doc_pages - 1)

RenderEmpty == render_fault \/ doc_pages = 0

\* the fragments held in memory, batch under way included
Recorded ==
    IF pc = "page_loop" THEN all_latex_pages \o latex_pages
    ELSE all_latex_pages

CallsFor(p) == {k \in TranslateIdx : log[k].page = p}

IsDigit(tok) == \E d \in 1..Len(Digits) : Digits[d] = tok

\* frag contains the error marker followed by exactly the decimal number n
MarkerFollowedBy(frag, n) ==
    \E j \in 1..Len(frag) :
        /\ frag[j] = ErrorMarker
        /\ j + Len(DecStr(n)) <= Len(frag)
        /\ SubSeq(frag, j + 1, j + Len(DecStr(n))) = DecStr(n)
        /\ j + Len(DecStr(n)) < Len(frag)
              => ~IsDigit(frag[j + Len(DecStr(n)) + 1])

IsStrictPrefix(a, b) == Len(a) < Len(b) /\ SubSeq(b, 1, Len(a)) = a

\* the page indices main hands out in batch idx (line 206)
BatchPageIndices(idx) ==
    [j \in 1..Len(batch_images_of(idx)) |->
        start_page + batch_start_of(idx) + (j - 1)]

RECURSIVE ConcatBatches(_, _)
ConcatBatches(from, to) ==
    IF from >= to THEN <<>>
    ELSE BatchPageIndices(from) \o ConcatBatches(from + 1, to)

RangeSeq(s, e) == [j \in 1..(e - s + 1) |-> s + j - 1]

PastValidation == pc \in {"batch_loop", "page_loop"} \/ FinalWritten

\* the fragments returned for the pages of seq, in that order
FragmentsOf(seq) ==
    [j \in 1..Len(seq) |-> log[CHOOSE k \in CallsFor(seq[j]) : TRUE].text]

----------------------------------------------------------------------------
(* C1: a run that reaches the final write has assembled exactly            *)
(* end-start+1 fragments, the i-th being the one returned for page         *)
(* start+i, whatever --batch-size was given.                               *)
C1_FinalFragmentsInOrder ==
    FinalWritten =>
        /\ Len(all_latex_pages) = end_page - start_page + 1
        /\ \A j \in 0..(end_page - start_page) :
              \E k \in CallsFor(start_page + j) :
                  /\ log[k].image = images[start_page + j + 1]
                  /\ j + 1 <= Len(all_latex_pages)
                  /\ all_latex_pages[j + 1] = log[k].text
        /\ full_latex = combine_latex_pages(all_latex_pages)

(* C2: when the requested range is invalid (start > end, or start or end   *)
(* outside 0..pageCount-1) the vision function is never invoked.           *)
C2_NoCallOnInvalidRange == RangeInvalid => NoCalls

C2_Witness ==
    /\ pc = "exited"
    /\ exit_code = <<1>>
    /\ images # <<>>
    /\ RangeInvalid
    /\ args.start_page \in 0..(doc_pages - 1)

(* C3: a failed remote call for page k leaves a fragment for page k that   *)
(* holds "Error processing page " followed by k+1; the pages after k are   *)
(* still passed to the vision function; and the run goes on to the final   *)
(* write.                                                                  *)
C3_State ==
    \A k \in TranslateIdx :
        log[k].outcome = "api_error" =>
            /\ MarkerFollowedBy(log[k].text, log[k].page + 1)
            /\ log[k].page - start_page + 1 \in 1..Len(Recorded)
            /\ Recorded[log[k].page - start_page + 1] = log[k].text
            /\ pc = "exited" =>
                  /\ FinalWritten
                  /\ \A p \in (log[k].page + 1)..end_page :
                        \E k2 \in CallsFor(p) : k2 > k

C3_FailureAbsorbed ==
    /\ []C3_State
    /\ (\E k \in TranslateIdx : log[k].outcome = "api_error") ~> FinalWritten

C3_Witness ==
    /\ FinalWritten
    /\ \E k \in TranslateIdx :
          /\ log[k].outcome = "api_error"
          /\ log[k].page < end_page

(* C4: the batches main computes, taken in batch order, list the page      *)
(* indices start..end, each exactly once.                                  *)
C4_BatchesPartitionRange ==
    PastValidation =>
        ConcatBatches(0, num_batches) = RangeSeq(start_page, end_page)

(* C5: in a completed run intermediate files exist iff there is more than  *)
(* one batch; then each batch has exactly one file, holding the assembly   *)
(* of that batch's fragments in page order; and there is exactly one       *)
(* final file.                                                             *)
C5_IntermediateFiles ==
    FinalWritten =>
        /\ Cardinality(FinalWriteIdx) = 1
        /\ IntermediateWriteIdx # {} <=> num_batches > 1
        /\ num_batches > 1 =>
              /\ Cardinality(IntermediateWriteIdx) = num_batches
              /\ \A b \in 0..(num_batches - 1) :
                    LET lo == start_page + b * batch_size
                        hi == Min(start_page + (b + 1) * batch_size,
                                  end_page + 1) - 1
                    IN  \E k \in IntermediateWriteIdx :
                            /\ log[k].name = BatchOutput(b)
                            /\ log[k].text =
                                  combine_latex_pages(
                                      FragmentsOf(RangeSeq(lo, hi)))

C5_Witness ==
    /\ FinalWritten
    /\ Len(selected_images) = 3
    /\ batch_size = 2
    /\ Cardinality(IntermediateWriteIdx) = 2

C7_EncodeFaultFatal ==
    \A k \in TranslateIdx :
        log[k].outcome = "encode_error" =>
            /\ pc = "exited"
            /\ exit_code # <<0>>
            /\ \A k2 \in TranslateIdx : k2 <= k
            /\ Len(Recorded) < log[k].page - start_page + 1

(* C7 amended: a fault while encoding page k is caught inside the vision   *)
(* function; page k gets the error-comment fragment, the pages after k     *)
(* are still processed and the run ends with the final write and code 0.   *)
C7_EncodeFaultAbsorbed ==
    \A k \in TranslateIdx :
        log[k].outcome = "encode_error" =>
            /\ MarkerFollowedBy(log[k].text, log[k].page + 1)
            /\ log[k].page - start_page + 1 \in 1..Len(Recorded)
            /\ Recorded[log[k].page - start_page + 1] = log[k].text
            /\ pc = "exited" =>
                  /\ exit_code = <<0>>
                  /\ FinalWritten
                  /\ \A p \in (log[k].page + 1)..end_page :
                        \E k2 \in CallsFor(p) : k2 > k

C7_Witness ==
    /\ FinalWritten
    /\ \E k \in TranslateIdx :
          /\ log[k].outcome = "encode_error"
          /\ log[k].page < end_page
          /\ \A p \in (log[k].page + 1)..end_page :
                \E k2 \in CallsFor(p) : k2 > k

(* the assembled document up to where the separator before the last page   *)
(* begins                                                                  *)
CutBeforeLast(doc, pages) ==
    SubSeq(doc, 1,
           Len(doc) - Len(Postamble) - Len(pages[Len(pages)]) - Len(Separator))

AppendStep ==
    /\ pc = "assemble"
    /\ all_latex_pages # <<>>
    /\ Len(all_latex_pages') = Len(all_latex_pages) + 1

(* C8 as stated: the assembly of L is a strict prefix of the assembly of   *)
(* L + [C] cut where the separator before C begins.                        *)
C8_WholeIsPrefix ==
    [][AppendStep =>
          IsStrictPrefix(full_latex,
                         CutBeforeLast(full_latex', all_latex_pages'))]_vars

(* C8 amended: the assembly of L + [C], cut where the separator before C   *)
(* begins, is the assembly of L without its postamble, hence a strict      *)
(* prefix of the assembly of L.                                            *)
C8_CutIsPrefix ==
    [][AppendStep =>
          LET cut == CutBeforeLast(full_latex', all_latex_pages')
          IN  /\ cut = SubSeq(full_latex, 1,
                              Len(full_latex) - Len(Postamble))
              /\ IsStrictPrefix(cut, full_latex)]_vars

C8_Witness ==
    /\ pc = "assemble"
    /\ Len(all_latex_pages) = MaxFragments
    /\ all_latex_pages[MaxFragments] # <<>>

(* C9 as stated: with a missing input file or an invalid range the process *)
(* exits before any page is rendered and before any remote call.           *)
C9_ExitBeforeWork ==
    (pc = "exited" /\ (~pdf_exists \/ RangeInvalid)) =>
        rendered = 0 /\ NoCalls

(* C9 amended: a missing input file exits before any page is rendered and  *)
(* before any remote call; an invalid range exits before any remote call,  *)
(* after the whole document has been rendered.                             *)
C9_ExitBeforeCalls ==
    /\ ~pdf_exists => rendered = 0 /\ NoCalls
    /\ RangeInvalid => NoCalls
    /\ (pc = "exited" /\ api_key /\ argv = "ok" /\ pdf_exists
           /\ ~RenderEmpty /\ RangeInvalid) => rendered = doc_pages

C9_Witness ==
    /\ pc = "exited"
    /\ images # <<>>
    /\ rendered = doc_pages
    /\ RequestedEnd >= doc_pages

\* a batch file follows the calls of its batch and precedes those of the next
C10_BatchWriteOrder ==
    \A b \in 0..(num_batches - 1) :
        \A w \in IntermediateWriteIdx :
            log[w].name = BatchOutput(b) =>
                /\ \A j \in 1..Len(BatchPageIndices(b)) :
                      \E k \in CallsFor(BatchPageIndices(b)[j]) : k < w
                /\ \A k \in TranslateIdx :
                      k < w => log[k].page
                                 < start_page + batch_start_of(b + 1)

\* the final file follows a call for every page of the range
C10_FinalAfterAllPages ==
    \A w \in FinalWriteIdx :
        \A p \in start_page..end_page : \E k \in CallsFor(p) : k < w

\* before the final write, the files hold the batches already passed
C10_DiskIsCompletedBatches ==
    (PastValidation /\ ~FinalWritten) =>
        IF num_batches > 1
        THEN /\ Cardinality(IntermediateWriteIdx) = batch_idx
             /\ \A b \in 0..(batch_idx - 1) :
                   \E w \in IntermediateWriteIdx :
                       /\ log[w].name = BatchOutput(b)
                       /\ log[w].text = combine_latex_pages(
                              FragmentsOf(BatchPageIndices(b)))
        ELSE WriteIdx = {}

(* C10: a batch file is written after the last page of its batch and       *)
(* before the first call of the next batch; the final file is written      *)
(* after every page of the range has been processed; so what is on disk    *)
(* is exactly the fragments of the batches whose pass is complete.         *)
C10_FlushAtBoundaries ==
    /\ C10_BatchWriteOrder
    /\ C10_FinalAfterAllPages
    /\ C10_DiskIsCompletedBatches

====
